---------------------------- MODULE Spec2Model ----------------------------
(***************************************************************************)
(* State-machine model of flappy.py: the Game singleton (score, game_over, *)
(* bird, pipes, floor, highscore), the module-level PIPE_GAP, the memento  *)
(* taken by main(), and the position of main()'s loop.                     *)
(*                                                                         *)
(* Units.  GRAVITY = 0.3 and ROTATION_SPEED = 0.05 are decimal fractions.  *)
(* Vertical quantities (bird.y, bird.vely, and every height they are       *)
(* compared with) are held in tenths of a pixel (Unit), angles in          *)
(* twentieths of a degree (AngleUnit), so that the additions of motion()   *)
(* are exact integer additions.  Horizontal quantities are whole pixels.   *)
(* Python adds these fractions as binary floats; the model adds them as    *)
(* exact decimals.                                                         *)
(***************************************************************************)
EXTENDS Integers, Sequences, FiniteSets

\* ---- program constants (flappy.py, lines 11-24) ----
WIDTH == 576
HEIGHT == 1024
Unit == 10
AngleUnit == 20
GRAVITY == 3
FLAP_POWER == 60
ROTATION_SPEED == 1
PIPE_THICKNESS == 104
PIPE_SPEED == 4
FLOOR_SPEED == 4
FLOOR_Y_OFFSET == 224
FLAP_ROTATION == 20
MIN_ROTATION == 90
GAP_MARGIN == 50
SECOND_PIPE_OFFSET == 340
DEFAULT_GAP == 250
MEDIUM_GAP == 200
HARD_GAP == 150

\* ---- sprite sizes: Sprite.__init__ reads them from the scaled images ----
\* (scale2x of the 34x24 bird, the 52x320 pipe and the 336x112 base; the
\* code itself relies on the doubled sizes: 640 in Pipe.render, 224 in
\* Game.__init__, PIPE_THICKNESS = 104)
BIRD_WIDTH == 68
BIRD_HEIGHT == 48
PIPE_WIDTH == 104
FLOOR_HEIGHT == 224

\* ---- bounds of the model ----
\* The player stops flapping once the round's score has reached MaxScore.
MaxScore == 3
\* handle_input receives at most MaxBatch events per frame.
MaxBatch == 1
\* The collision probe tries every pipe x within ProbeMargin pixels of the
\* positions where the pipe's and the bird's horizontal extents meet.
ProbeMargin == 6

\* The player's flaps come FlapDelays ticks after the previous flap.
FlapDelays == {20, 35, 45}
\* argv[1] as given on the command line ("" stands for no argument).
Argv == {"", "hard", "h", "med", "m", "easy"}
\* One argument for each difficulty.
SpecArgv == {"", "hard", "med"}
\* Events pygame.event.get() can deliver: a mapped flap key, Escape, the
\* window's close button, any unmapped key.
Events == {"flap", "escape", "quit", "other"}

VARIABLES
    score,        \* Game.score
    game_over,    \* Game.game_over
    bird,         \* Game.bird: [x, y, vely, started, degree, rotation]
    pipes,        \* Game.pipes: sequence of [x, gap_start]
    floor,        \* Game.floor: [x]
    highscore,    \* Game.highscore (class attribute)
    PIPE_GAP,     \* the module-level global, rebound by Game.__init__
    start_state,  \* main()'s memento: <<>> before create_memento, else <<m>>
    pc,           \* position in main(): main, render, input, update,
                  \*   endgame, restore, exited (collision probe: probe, probed)
    passed,       \* history: pipes of this round whose centre reached bird.x
    hit,          \* history: <<kinematics>> at the instant game_over was set
    evals,        \* history: collision() calls made by the latest update step
    ends,         \* history: endgame() calls made in this activation of main()
    argv,         \* sys.argv[1] ("" when there is none)
    instance,     \* Game.__instance: 0 for None, 1 for the Game object
    made,         \* history: Game objects whose __init__ ran to its end
    raised,       \* history: "none", or the call whose Game() raised
    batch,        \* history (input probe): the batch of the latest handle_input
    origin,       \* history (probes): the bird the probe began with
    ticks,        \* history (fall probe): Bird.motion calls since then
    depth,        \* history (rounds): activations of main() entered, none left
    captures,     \* history (rounds): create_memento() calls made
    rounds        \* history (rounds): rounds that endgame() has closed

\* The history of the start-up and of the probes, which the steps of a
\* running game leave alone.
aux == <<argv, instance, made, raised, batch, origin, ticks, depth,
         captures, rounds>>

vars == <<score, game_over, bird, pipes, floor, highscore, PIPE_GAP,
          start_state, pc, passed, hit, evals, ends, argv, instance, made,
          raised, batch, origin, ticks, depth, captures, rounds>>


\* ---------------------------------------------------------------------
\* Sprites
\* ---------------------------------------------------------------------

\* Bird.__init__: a bird at (x, y), at rest (y in tenths of a pixel).
NewBird(x, y) ==
    [x |-> x, y |-> y, vely |-> 0, started |-> FALSE,
     degree |-> 0, rotation |-> 0]

\* Mutant of BirdMotion: the fall speed is capped at 10 pixels a tick.
BirdMotionTerminal(b) ==
    LET w == b.vely + GRAVITY
        v == IF w > 10 * Unit THEN 10 * Unit ELSE w
        d == b.degree + ROTATION_SPEED
    IN  [b EXCEPT !.vely = v,
                  !.y = b.y + v,
                  !.degree = d,
                  !.rotation = IF b.rotation >= -(MIN_ROTATION * AngleUnit)
                               THEN b.rotation - d ELSE b.rotation]

\* Bird.motion: gravity, then the fall rotation.
BirdMotion(b) ==
    LET v == b.vely + GRAVITY
        d == b.degree + ROTATION_SPEED
    IN  [b EXCEPT !.vely = v,
                  !.y = b.y + v,
                  !.degree = d,
                  !.rotation = IF b.rotation >= -(MIN_ROTATION * AngleUnit)
                               THEN b.rotation - d ELSE b.rotation]

\* Mutant of BirdFlap: the flap power is taken off the current velocity.
BirdFlapAdditive(b) ==
    [b EXCEPT !.vely = b.vely - FLAP_POWER,
              !.rotation = FLAP_ROTATION * AngleUnit,
              !.degree = 0]

\* Mutant of BirdFlap: the flap also lifts the bird at once.
BirdFlapJumps(b) ==
    [b EXCEPT !.vely = -FLAP_POWER,
              !.y = b.y - FLAP_POWER,
              !.rotation = FLAP_ROTATION * AngleUnit,
              !.degree = 0]

\* Bird.flap
BirdFlap(b) ==
    [b EXCEPT !.vely = -FLAP_POWER,
              !.rotation = FLAP_ROTATION * AngleUnit,
              !.degree = 0]

\* Mutant of collision: the gap's upper edge tested with <=, so a bird whose
\* top is exactly at gap_start collides.
collisionClosedGap(b, f, p, gap) ==
    \/ b.y < 0
    \/ b.y > (HEIGHT - FLOOR_HEIGHT - BIRD_HEIGHT) * Unit
    \/ /\ p.x < b.x + BIRD_WIDTH
       /\ b.x + BIRD_WIDTH < p.x + PIPE_WIDTH
       /\ \/ b.y <= p.gap_start * Unit
          \/ b.y + BIRD_HEIGHT * Unit > (p.gap_start + gap) * Unit

\* Mutant of collision: the floor/ceiling test applied only inside the
\* pipe's x range.
collisionBoundsInPipe(b, f, p, gap) ==
    /\ p.x < b.x + BIRD_WIDTH
    /\ b.x + BIRD_WIDTH < p.x + PIPE_WIDTH
    /\ \/ b.y < 0
       \/ b.y > (HEIGHT - FLOOR_HEIGHT - BIRD_HEIGHT) * Unit
       \/ b.y < p.gap_start * Unit
       \/ b.y + BIRD_HEIGHT * Unit > (p.gap_start + gap) * Unit

\* Mutant of collision: the pipe clause holds while any part of the bird is
\* over the pipe.
collisionFullOverlap(b, f, p, gap) ==
    \/ b.y < 0
    \/ b.y > (HEIGHT - FLOOR_HEIGHT - BIRD_HEIGHT) * Unit
    \/ /\ p.x < b.x + BIRD_WIDTH
       /\ b.x < p.x + PIPE_WIDTH
       /\ \/ b.y < p.gap_start * Unit
          \/ b.y + BIRD_HEIGHT * Unit > (p.gap_start + gap) * Unit

\* Bird.collision(floor, pipe), with PIPE_GAP as it stands at the call.
collision(b, f, p, gap) ==
    \/ b.y < 0
    \/ b.y > (HEIGHT - FLOOR_HEIGHT - BIRD_HEIGHT) * Unit
    \/ /\ p.x < b.x + BIRD_WIDTH
       /\ b.x + BIRD_WIDTH < p.x + PIPE_WIDTH
       /\ \/ b.y < p.gap_start * Unit
          \/ b.y + BIRD_HEIGHT * Unit > (p.gap_start + gap) * Unit

\* Floor.__init__
NewFloor(x) == [x |-> x]

\* Floor.motion
FloorMotion(f) == [f EXCEPT !.x = f.x - FLOOR_SPEED]

\* Mutant of FloorOffscreen: the floor counts as off-screen as soon as its
\* x reaches -WIDTH.
FloorOffscreenAtEdge(f) == f.x <= -WIDTH

\* Floor.offscreen
FloorOffscreen(f) == f.x < -WIDTH

\* Mutant of GapStarts: the floor's height is left out of the upper end.
GapStartsNoFloor(gap) == {GAP_MARGIN, HEIGHT - gap - GAP_MARGIN}

\* The values randint(50, HEIGHT - PIPE_GAP - 224 - 50) is sampled at: the
\* two ends of its range.
GapStarts(gap) == {GAP_MARGIN, HEIGHT - gap - FLOOR_Y_OFFSET - GAP_MARGIN}

\* Pipe.__init__ / PipeFactory.get_flyweight: a pipe at x whose gap_start is
\* the value g that randint returned.
NewPipe(x, g) == [x |-> x, gap_start |-> g]

\* Pipe.motion
PipeMotion(p) == [p EXCEPT !.x = p.x - PIPE_SPEED]

\* Mutant of PipeOffscreen: the pipe counts as off-screen once its left
\* edge has passed the screen's left boundary.
PipeOffscreenLeftEdge(p) == p.x < 0

\* Pipe.offscreen
PipeOffscreen(p) == p.x + PIPE_THICKNESS < 0

\* Mutant of PipeScores: the centre test written as a threshold, so a pipe
\* left of the bird scores on every tick.
PipeScoresThreshold(p, b) == p.x + PIPE_THICKNESS \div 2 <= b.x

\* Mutant of PipeScores: the pipe scores when its right edge is at the
\* bird's x.
PipeScoresTrailingEdge(p, b) == p.x + PIPE_THICKNESS = b.x

\* The test of Game.update that notifies the observer.
PipeScores(p, b) == p.x + PIPE_THICKNESS \div 2 = b.x

\* Mutant of GapFor: only the full words select a difficulty.
GapForWordsOnly(arg) ==
    IF arg = "hard" THEN HARD_GAP
    ELSE IF arg = "med" THEN MEDIUM_GAP
    ELSE DEFAULT_GAP

\* Game.__init__, lines 760-767: the gap the difficulty argument selects.
GapFor(arg) ==
    IF arg \in {"h", "hard"} THEN HARD_GAP
    ELSE IF arg \in {"m", "med"} THEN MEDIUM_GAP
    ELSE DEFAULT_GAP

\* ---------------------------------------------------------------------
\* Memento
\* ---------------------------------------------------------------------

\* Mutant of CreateMemento: the bird's coordinates are stored in the wrong
\* order.
CreateMementoSwapped ==
    [score |-> score, game_over |-> game_over,
     bird_state |-> <<bird.y, bird.x>>,
     pipe_states |-> [i \in 1..Len(pipes) |-> pipes[i].x],
     floor_state |-> floor.x]

\* GameOriginator.create_memento
CreateMemento ==
    [score |-> score, game_over |-> game_over,
     bird_state |-> <<bird.x, bird.y>>,
     pipe_states |-> [i \in 1..Len(pipes) |-> pipes[i].x],
     floor_state |-> floor.x]

\* The kinematic state the game-over flag is said to freeze.
Kinematics ==
    [y |-> bird.y, vely |-> bird.vely, rotation |-> bird.rotation,
     pipes |-> pipes, floor_x |-> floor.x]


\* Mutant of RestoredBird: the bird is put back at its start position but
\* keeps its started flag.
RestoredBirdStillStarted(m) ==
    [NewBird(m.bird_state[1], m.bird_state[2]) EXCEPT !.started = TRUE]

\* Mutant of RestoredFloor: the floor is left where the round ended.
RestoredFloorStale(m) == floor

\* GameOriginator.restore_from_memento, lines 634-636: the sprites it
\* re-creates; gs[i] is the gap_start randint gives the i-th new pipe.
RestoredBird(m) == NewBird(m.bird_state[1], m.bird_state[2])

RestoredPipes(m, gs) ==
    [i \in 1..Len(m.pipe_states) |-> NewPipe(m.pipe_states[i], gs[i])]

RestoredFloor(m) == NewFloor(m.floor_state)

\* ---------------------------------------------------------------------
\* Game.update
\* ---------------------------------------------------------------------

\* The for loop of Game.update (lines 797-814) from pipe i on.  st carries
\* what the loop changes: the pipes, game_over, score, the indices of
\* pipes_to_remove, and the history counts (evals: collision() calls,
\* passed: pipes whose centre moved onto or past bird.x in this call).
RECURSIVE PipeLoop(_, _)
PipeLoop(st, i) ==
    IF i > Len(st.pipes) THEN st
    ELSE LET p == PipeMotion(st.pipes[i])
             moved == [st EXCEPT
                          !.pipes[i] = p,
                          !.evals = @ + 1,
                          !.passed = IF /\ st.pipes[i].x + PIPE_THICKNESS \div 2 > bird.x
                                        /\ p.x + PIPE_THICKNESS \div 2 <= bird.x
                                     THEN @ + 1 ELSE @]
         IN  IF collision(bird, floor, p, PIPE_GAP)
             THEN [moved EXCEPT !.game_over = TRUE,
                                !.hit = <<[y |-> bird.y, vely |-> bird.vely,
                                           rotation |-> bird.rotation,
                                           pipes |-> moved.pipes,
                                           floor_x |-> st.floor_x]>>]
             ELSE PipeLoop([moved EXCEPT
                               !.remove = IF PipeOffscreen(p)
                                          THEN Append(@, i) ELSE @,
                               !.score = IF PipeScores(p, bird)
                                         THEN @ + 1 ELSE @],
                           i + 1)

\* Mutant of Recycle: the new pipes are put in front of the kept ones.
RecyclePrepends(ps, remove, gs) ==
    LET kept == {i \in 1..Len(ps) : \A k \in 1..Len(remove) : remove[k] # i}
        F[i \in 0..Len(ps)] ==
            IF i = 0 THEN <<>>
            ELSE IF i \in kept THEN Append(F[i - 1], ps[i]) ELSE F[i - 1]
    IN  [k \in 1..Len(remove) |-> NewPipe(WIDTH, gs[k])] \o F[Len(ps)]

\* Mutant of Recycle: the removed pipes leave the list and nothing is
\* appended for them.
RecycleNoSpawn(ps, remove, gs) ==
    LET kept == {i \in 1..Len(ps) : \A k \in 1..Len(remove) : remove[k] # i}
        F[i \in 0..Len(ps)] ==
            IF i = 0 THEN <<>>
            ELSE IF i \in kept THEN Append(F[i - 1], ps[i]) ELSE F[i - 1]
    IN  F[Len(ps)]

\* Lines 817-820: every pipe of pipes_to_remove leaves the list and a new
\* pipe at x = WIDTH is appended for it; gs[k] is the k-th new gap_start.
Recycle(ps, remove, gs) ==
    LET kept == {i \in 1..Len(ps) : \A k \in 1..Len(remove) : remove[k] # i}
        F[i \in 0..Len(ps)] ==
            IF i = 0 THEN <<>>
            ELSE IF i \in kept THEN Append(F[i - 1], ps[i]) ELSE F[i - 1]
    IN  F[Len(ps)] \o [k \in 1..Len(remove) |-> NewPipe(WIDTH, gs[k])]

\* The floor at the start of Game.update (lines 790-791).
FloorWrap(f) == IF FloorOffscreen(f) THEN [f EXCEPT !.x = 0] ELSE f

\* Game.update, the whole call.
GameUpdate ==
    IF game_over
    THEN UNCHANGED <<score, game_over, bird, pipes, floor, passed, hit>>
         /\ evals' = 0
    ELSE LET f0 == FloorWrap(floor)
             st == PipeLoop([pipes |-> pipes, game_over |-> FALSE,
                             score |-> score, remove |-> <<>>,
                             evals |-> 0, passed |-> passed,
                             hit |-> hit, floor_x |-> f0.x], 1)
         IN  /\ \E gs \in [1..Len(st.remove) -> GapStarts(PIPE_GAP)] :
                    pipes' = Recycle(st.pipes, st.remove, gs)
             /\ game_over' = st.game_over
             /\ score' = st.score
             /\ bird' = BirdMotion(bird)
             /\ floor' = FloorMotion(f0)
             /\ passed' = st.passed
             /\ hit' = st.hit
             /\ evals' = st.evals


\* ---------------------------------------------------------------------
\* Input
\* ---------------------------------------------------------------------

\* FlapCommand.execute
FlapCommand(b) == BirdFlap([b EXCEPT !.started = TRUE])

\* Whether an event ends the process: pygame.QUIT (lines 843-845) or the
\* Escape key, mapped to ExitCommand (lines 755, 1040-1041).
Exits(e) == e \in {"quit", "escape"}

\* Mutant of Dispatch: an exit event is noted and the rest of the batch is
\* still dispatched before the process ends.
RECURSIVE DispatchDrains(_, _, _)
DispatchDrains(b, evs, i) ==
    IF i > Len(evs) THEN [bird |-> b, exited |-> FALSE]
    ELSE IF Exits(evs[i])
         THEN [bird |-> DispatchDrains(b, evs, i + 1).bird, exited |-> TRUE]
    ELSE IF evs[i] = "flap"
         THEN DispatchDrains(FlapCommand(b), evs, i + 1)
    ELSE DispatchDrains(b, evs, i + 1)

\* The event loop of Game.handle_input from event i on: the bird after it,
\* and whether the process exited.
RECURSIVE Dispatch(_, _, _)
Dispatch(b, evs, i) ==
    IF i > Len(evs) THEN [bird |-> b, exited |-> FALSE]
    ELSE IF Exits(evs[i]) THEN [bird |-> b, exited |-> TRUE]
    ELSE IF evs[i] = "flap" THEN Dispatch(FlapCommand(b), evs, i + 1)
    ELSE Dispatch(b, evs, i + 1)

\* The batches pygame.event.get() may return in one frame.
Batches == UNION {[1..n -> Events] : n \in 0..MaxBatch}

\* When the modelled player presses a flap key: to start the round, and then
\* one of FlapDelays ticks after the previous flap, until MaxScore is reached.
CanFlap ==
    /\ score < MaxScore
    /\ \/ ~bird.started
       \/ \E d \in FlapDelays : bird.vely = d * GRAVITY - FLAP_POWER

\* ---------------------------------------------------------------------
\* main()
\* ---------------------------------------------------------------------

\* Game.__init__, lines 740-767: the fields of a new Game and the PIPE_GAP
\* it leaves, for argv[1] = arg and the two gap_start values randint gives.
\* The pipes are made before the difficulty is read.
NewGame(arg, g1, g2) ==
    [score |-> 0,
     game_over |-> FALSE,
     bird |-> NewBird(WIDTH \div 20, (HEIGHT \div 2) * Unit),
     pipes |-> <<NewPipe(WIDTH + WIDTH \div 2, g1),
                 NewPipe(WIDTH + WIDTH \div 2 + SECOND_PIPE_OFFSET, g2)>>,
     floor |-> NewFloor(0),
     PIPE_GAP |-> GapFor(arg)]

\* Mutant of GetInstanceCreates: every call constructs a Game.
GetInstanceAlwaysCreates(inst) == TRUE

\* Game.get_instance, line 721: whether the call constructs a Game.
GetInstanceCreates(inst) == inst = 0

\* Game.__init__, line 736: whether the constructor raises.
InitRaises(inst) == inst # 0

\* The state in which main() is entered for the first time, the Game
\* already constructed (the long game runs use one argument per difficulty).
Init ==
    \E arg \in SpecArgv : \E g1, g2 \in GapStarts(DEFAULT_GAP) :
        LET g == NewGame(arg, g1, g2)
        IN  /\ score = g.score
            /\ game_over = g.game_over
            /\ bird = g.bird
            /\ pipes = g.pipes
            /\ floor = g.floor
            /\ highscore = 0
            /\ PIPE_GAP = g.PIPE_GAP
            /\ start_state = <<>>
            /\ pc = "main"
            /\ passed = 0
            /\ hit = <<>>
            /\ evals = 0
            /\ ends = 0
            /\ argv = arg
            /\ instance = 1
            /\ made = 1
            /\ raised = "none"
            /\ batch = <<>>
            /\ origin = g.bird
            /\ ticks = 0
            /\ depth = 0
            /\ captures = 0
            /\ rounds = 0

\* main(), lines 1049-1065: Game.get_instance() (which constructs the Game
\* when there is none), then create_memento(), which calls get_instance()
\* again and records the layout.
MainBody ==
    /\ pc = "main"
    /\ LET creates1 == GetInstanceCreates(instance)
           raises1 == creates1 /\ InitRaises(instance)
           inst1 == IF creates1 /\ ~raises1 THEN 1 ELSE instance
           creates2 == GetInstanceCreates(inst1)
           raises2 == creates2 /\ InitRaises(inst1)
       IN  IF raises1 \/ raises2
           THEN /\ raised' = "get_instance"
                /\ pc' = "raised"
                /\ UNCHANGED <<score, game_over, bird, pipes, floor, PIPE_GAP,
                               start_state, ends, instance, made>>
           ELSE /\ IF creates1
                   THEN \E g1, g2 \in GapStarts(PIPE_GAP) :
                            LET g == NewGame(argv, g1, g2)
                            IN  /\ score' = g.score
                                /\ game_over' = g.game_over
                                /\ bird' = g.bird
                                /\ pipes' = g.pipes
                                /\ floor' = g.floor
                                /\ PIPE_GAP' = g.PIPE_GAP
                   ELSE UNCHANGED <<score, game_over, bird, pipes, floor,
                                    PIPE_GAP>>
                /\ instance' = inst1
                /\ made' = IF creates1 THEN made + 1 ELSE made
                /\ start_state' = <<CreateMemento'>>
                /\ ends' = 0
                /\ raised' = raised
                /\ pc' = "render"
    /\ UNCHANGED <<highscore, passed, hit, evals, argv, batch, origin, ticks>>

Main == MainBody /\ UNCHANGED <<depth, captures, rounds>>

\* Line 1069: game.render draws the state and changes none of it.
Render ==
    /\ pc = "render"
    /\ pc' = "input"
    /\ UNCHANGED <<score, game_over, bird, pipes, floor, highscore, PIPE_GAP,
                   start_state, passed, hit, evals, ends>>
    /\ UNCHANGED aux

\* Game.handle_input, the whole call; r is what its event loop came to.
Input(r) ==
    /\ pc = "input"
    /\ bird' = r.bird
    /\ pc' = IF r.exited THEN "exited" ELSE "update"
    /\ UNCHANGED <<score, game_over, pipes, floor, highscore, PIPE_GAP,
                   start_state, passed, hit, evals, ends>>
    /\ UNCHANGED <<argv, instance, made, raised, origin, ticks, depth,
                   captures, rounds>>

\* Line 1070: game.handle_input() on any batch the player may have produced.
HandleInput ==
    \E r \in {Dispatch(bird, evs, 1) :
                evs \in {b \in Batches :
                           (\E i \in 1..Len(b) : b[i] = "flap") => CanFlap}} :
        Input(r) /\ UNCHANGED batch

\* Mutant of Update: the test of bird.started never lets update() run.
UpdateNeverRuns ==
    /\ pc = "update"
    /\ evals' = 0
    /\ pc' = "render"
    /\ UNCHANGED <<score, game_over, bird, pipes, floor, highscore, PIPE_GAP,
                   start_state, passed, hit, ends>>
    /\ UNCHANGED aux

\* Mutant of Update: update() runs in every frame, started or not.
UpdateUnguarded ==
    /\ pc = "update"
    /\ GameUpdate
    /\ pc' = IF game_over' THEN "endgame" ELSE "render"
    /\ UNCHANGED <<highscore, PIPE_GAP, start_state, ends>>
    /\ UNCHANGED aux

\* Mutant of Update: the loop goes on to the next render whether or not the
\* round has ended.
UpdateThenRender ==
    /\ pc = "update"
    /\ IF bird.started
       THEN GameUpdate
       ELSE /\ UNCHANGED <<score, game_over, bird, pipes, floor, passed, hit>>
            /\ evals' = 0
    /\ pc' = "render"
    /\ UNCHANGED <<highscore, PIPE_GAP, start_state, ends>>
    /\ UNCHANGED aux

\* Lines 1071-1074: update() if the bird has started, the clock tick, and
\* the test of game_over that leaves the loop.
Update ==
    /\ pc = "update"
    /\ IF bird.started
       THEN GameUpdate
       ELSE /\ UNCHANGED <<score, game_over, bird, pipes, floor, passed, hit>>
            /\ evals' = 0
    /\ pc' = IF game_over' THEN "endgame" ELSE "render"
    /\ UNCHANGED <<highscore, PIPE_GAP, start_state, ends>>
    /\ UNCHANGED aux

\* Mutant of EndGame: the round's score is stored without the comparison.
EndGameStoresScore ==
    /\ pc = "endgame"
    /\ game_over' = TRUE
    /\ highscore' = score
    /\ ends' = ends + 1
    /\ pc' = "restore"
    /\ UNCHANGED <<score, bird, pipes, floor, PIPE_GAP, start_state, passed,
                   hit, evals>>
    /\ UNCHANGED aux

\* Game.endgame (line 1075)
EndGameBody ==
    /\ pc = "endgame"
    /\ game_over' = TRUE
    /\ highscore' = IF highscore < score THEN score ELSE highscore
    /\ ends' = ends + 1
    /\ pc' = "restore"
    /\ UNCHANGED <<score, bird, pipes, floor, PIPE_GAP, start_state, passed,
                   hit, evals>>

EndGame == EndGameBody /\ UNCHANGED aux

\* Lines 1076-1079: the delay, restore_from_memento(start_state), and the
\* call of main() that starts the next round.
Restore ==
    /\ pc = "restore"
    /\ LET m == start_state[1]
       IN  /\ score' = m.score
           /\ game_over' = m.game_over
           /\ bird' = RestoredBird(m)
           /\ \E gs \in [1..Len(m.pipe_states) -> GapStarts(PIPE_GAP)] :
                  pipes' = RestoredPipes(m, gs)
           /\ floor' = RestoredFloor(m)
    /\ passed' = 0
    /\ hit' = <<>>
    /\ pc' = "main"
    /\ UNCHANGED <<highscore, PIPE_GAP, start_state, evals, ends>>
    /\ UNCHANGED aux

Next ==
    \/ Main
    \/ Render
    \/ HandleInput
    \/ Update
    \/ EndGame
    \/ Restore

Spec == Init /\ [][Next]_vars


\* One flap starts each round and no other event arrives.
QuietInput ==
    /\ Input(Dispatch(bird, IF bird.started THEN <<>> ELSE <<"flap">>, 1))
    /\ UNCHANGED batch

QuietNext ==
    \/ Main
    \/ Render
    \/ QuietInput
    \/ Update
    \/ EndGame
    \/ Restore

\* main() is one thread that never blocks for good: clock.tick and
\* time.delay return, so a step that can be taken is taken.
QuietSpec == Init /\ [][QuietNext]_vars /\ WF_vars(QuietNext)

\* ---------------------------------------------------------------------
\* The process from its start: no Game yet, then quiet rounds, with a
\* second Game() attempted at any moment
\* ---------------------------------------------------------------------

\* The process before main() is entered: the module and class attributes
\* have their initial values and there is no Game object (its fields are
\* given the values of an empty game until Game.__init__ sets them).
StartInit ==
    \E arg \in Argv :
        /\ score = 0
        /\ game_over = FALSE
        /\ bird = NewBird(0, 0)
        /\ pipes = <<>>
        /\ floor = NewFloor(0)
        /\ highscore = 0
        /\ PIPE_GAP = DEFAULT_GAP
        /\ start_state = <<>>
        /\ pc = "main"
        /\ passed = 0
        /\ hit = <<>>
        /\ evals = 0
        /\ ends = 0
        /\ argv = arg
        /\ instance = 0
        /\ made = 0
        /\ raised = "none"
        /\ batch = <<>>
        /\ origin = NewBird(0, 0)
        /\ ticks = 0
        /\ depth = 0
        /\ captures = 0
        /\ rounds = 0

\* Game() called directly while the instance exists: line 736 raises
\* before any field is assigned, and the exception ends the process.
ConstructAgain ==
    /\ pc \in {"render", "input", "update", "endgame", "restore"}
    /\ InitRaises(instance)
    /\ raised' = "Game()"
    /\ pc' = "raised"
    /\ UNCHANGED <<score, game_over, bird, pipes, floor, highscore, PIPE_GAP,
                   start_state, passed, hit, evals, ends, argv, instance,
                   made, batch, origin, ticks, depth, captures, rounds>>

StartNext ==
    \/ QuietNext
    \/ ConstructAgain

StartSpec == StartInit /\ [][StartNext]_vars

\* ---------------------------------------------------------------------
\* The process from its start, round after round, with the activations of
\* main(), the mementos taken and the rounds closed counted
\* ---------------------------------------------------------------------

\* The number of activations of main() followed.
MaxRounds == 3

\* Mutant of MainCounted: the next round runs in the activation of main()
\* that ran the last one, as a loop would have it.
MainLoops ==
    /\ depth < MaxRounds
    /\ MainBody
    /\ depth' = 1
    /\ captures' = IF pc' = "raised" THEN captures ELSE captures + 1
    /\ UNCHANGED rounds

\* main() is entered (the first call of line 1113, or the call of line 1079
\* from inside the activation whose round has ended) and takes its memento;
\* no activation has returned.
MainCounted ==
    /\ depth < MaxRounds
    /\ MainBody
    /\ depth' = depth + 1
    /\ captures' = IF pc' = "raised" THEN captures ELSE captures + 1
    /\ UNCHANGED rounds

\* Game.endgame (line 1075) closes the round.
EndGameCounted ==
    /\ EndGameBody
    /\ rounds' = rounds + 1
    /\ UNCHANGED <<argv, instance, made, raised, batch, origin, ticks, depth,
                   captures>>

RoundsNext ==
    \/ MainCounted
    \/ Render
    \/ QuietInput
    \/ Update
    \/ EndGameCounted
    \/ Restore

RoundsSpec == StartInit /\ [][RoundsNext]_vars

\* ---------------------------------------------------------------------
\* Bird.collision on its own: every bird y and pipe x near the edges
\* ---------------------------------------------------------------------

\* Pipe positions from where the pipe's right edge is left of the bird to
\* where its left edge is right of the bird.
ProbeXs ==
    (WIDTH \div 20 - PIPE_WIDTH - ProbeMargin) ..
        (WIDTH \div 20 + BIRD_WIDTH + ProbeMargin)

\* Bird heights (tenths of a pixel) around the ceiling, the floor bound and
\* the two edges of the gap.
ProbeYs(g, gap) ==
    LET edges == {0, (HEIGHT - FLOOR_HEIGHT - BIRD_HEIGHT) * Unit, g * Unit,
                  (g + gap - BIRD_HEIGHT) * Unit}
    IN  {e + d : e \in edges, d \in (-ProbeMargin)..ProbeMargin}

ProbeInit ==
    \E arg \in Argv : \E g \in GapStarts(DEFAULT_GAP) \cup GapStarts(GapFor(arg)) :
    \E x \in ProbeXs : \E y \in ProbeYs(g, GapFor(arg)) :
        /\ score = 0
        /\ game_over = FALSE
        /\ bird = NewBird(WIDTH \div 20, y)
        /\ pipes = <<NewPipe(x, g)>>
        /\ floor = NewFloor(0)
        /\ highscore = 0
        /\ PIPE_GAP = GapFor(arg)
        /\ start_state = <<>>
        /\ pc = "probe"
        /\ passed = 0
        /\ hit = <<>>
        /\ evals = 0
        /\ ends = 0
        /\ argv = arg
        /\ instance = 1
        /\ made = 1
        /\ raised = "none"
        /\ batch = <<>>
        /\ origin = NewBird(WIDTH \div 20, y)
        /\ ticks = 0
        /\ depth = 0
        /\ captures = 0
        /\ rounds = 0

\* One call of bird.collision(floor, pipe); game_over holds its result.
Probe ==
    /\ pc = "probe"
    /\ game_over' = collision(bird, floor, pipes[1], PIPE_GAP)
    /\ evals' = 1
    /\ pc' = "probed"
    /\ UNCHANGED <<score, bird, pipes, floor, highscore, PIPE_GAP,
                   start_state, passed, hit, ends>>
    /\ UNCHANGED aux

CollisionSpec == ProbeInit /\ [][Probe]_vars

\* ---------------------------------------------------------------------
\* Game.handle_input on its own: batches of several events, in Idle and at
\* several moments of a fall
\* ---------------------------------------------------------------------

\* The longest batch pygame.event.get() returns here.
MaxEvents == 2

LongBatches == UNION {[1..n -> Events] : n \in 0..MaxEvents}

\* The bird after n calls of Bird.motion.
RECURSIVE Fallen(_, _)
Fallen(b, n) == IF n = 0 THEN b ELSE BirdMotion(Fallen(b, n - 1))

\* Heights (tenths of a pixel) of the flap before the fall, and lengths of
\* the fall, that keep the bird between ceiling and floor.
ProbeHeights == {1000, 4000}
ProbeFalls == {0, 1, 20, 40}

\* The bird handle_input may find: the Idle bird of a new round, or a bird
\* that flapped and has fallen since.
ProbeBirds ==
    {NewBird(WIDTH \div 20, (HEIGHT \div 2) * Unit)} \cup
    {Fallen(FlapCommand(NewBird(WIDTH \div 20, y)), n) :
         y \in ProbeHeights, n \in ProbeFalls}

InputInit ==
    \E b \in ProbeBirds :
        LET g == NewGame("", GAP_MARGIN, GAP_MARGIN)
        IN  /\ score = g.score
            /\ game_over = g.game_over
            /\ bird = b
            /\ pipes = g.pipes
            /\ floor = g.floor
            /\ highscore = 0
            /\ PIPE_GAP = g.PIPE_GAP
            /\ start_state = <<[score |-> g.score, game_over |-> g.game_over,
                                bird_state |-> <<g.bird.x, g.bird.y>>,
                                pipe_states |-> [i \in 1..2 |-> g.pipes[i].x],
                                floor_state |-> g.floor.x]>>
            /\ pc = "input"
            /\ passed = 0
            /\ hit = <<>>
            /\ evals = 0
            /\ ends = 0
            /\ argv = ""
            /\ instance = 1
            /\ made = 1
            /\ raised = "none"
            /\ batch = <<>>
            /\ origin = b
            /\ ticks = 0
            /\ depth = 0
            /\ captures = 0
            /\ rounds = 0

\* One call of Game.handle_input with the batch evs.
InputBatch ==
    \E evs \in LongBatches :
        /\ Input(Dispatch(bird, evs, 1))
        /\ batch' = evs

InputSpec == InputInit /\ [][InputBatch]_vars

\* ---------------------------------------------------------------------
\* Bird.motion on its own: a free fall of up to MaxFall ticks
\* ---------------------------------------------------------------------

\* The longest free fall followed.
MaxFall == 100

\* Ticks since the flap at which the fall is taken up: the bird is then
\* rising at FLAP_POWER, at rest, or falling at three pixels a tick.
FallStarts == {0, 20, 30}

\* Heights (tenths of a pixel) of the flap.
FallHeights == {1000, 4000, (HEIGHT \div 2) * Unit}

FallInit ==
    \E y \in FallHeights : \E n \in FallStarts :
        LET g == NewGame("", GAP_MARGIN, GAP_MARGIN)
            b == Fallen(FlapCommand(NewBird(WIDTH \div 20, y)), n)
        IN  /\ score = g.score
            /\ game_over = g.game_over
            /\ bird = b
            /\ pipes = g.pipes
            /\ floor = g.floor
            /\ highscore = 0
            /\ PIPE_GAP = g.PIPE_GAP
            /\ start_state = <<>>
            /\ pc = "fall"
            /\ passed = 0
            /\ hit = <<>>
            /\ evals = 0
            /\ ends = 0
            /\ argv = ""
            /\ instance = 1
            /\ made = 1
            /\ raised = "none"
            /\ batch = <<>>
            /\ origin = b
            /\ ticks = 0
            /\ depth = 0
            /\ captures = 0
            /\ rounds = 0

\* One call of bird.motion().
Fall ==
    /\ pc = "fall"
    /\ ticks < MaxFall
    /\ bird' = BirdMotion(bird)
    /\ ticks' = ticks + 1
    /\ UNCHANGED <<score, game_over, pipes, floor, highscore, PIPE_GAP,
                   start_state, pc, passed, hit, evals, ends, argv, instance,
                   made, raised, batch, origin, depth, captures, rounds>>

MotionSpec == FallInit /\ [][Fall]_vars

\* ---------------------------------------------------------------------
\* Properties
\* ---------------------------------------------------------------------

\* The closed horizontal extents [b.x, b.x + width] and [p.x, p.x + width]
\* have a point in common.
HorizontalOverlap(b, p) ==
    /\ p.x <= b.x + BIRD_WIDTH
    /\ b.x <= p.x + PIPE_WIDTH

\* The bird's vertical extent lies inside [gap_start, gap_start + gap].
InsideGap(b, p, gap) ==
    /\ p.gap_start * Unit <= b.y
    /\ b.y + BIRD_HEIGHT * Unit <= (p.gap_start + gap) * Unit

\* 0 <= bird.y <= HEIGHT - floor.height - bird.height
InsideBounds(b) ==
    /\ 0 <= b.y
    /\ b.y <= (HEIGHT - FLOOR_HEIGHT - BIRD_HEIGHT) * Unit

\* C1 (as stated): in every reachable state the score equals the number of
\* pipes of this round whose horizontal centre has reached bird.x.
C1_ScoreEqualsPassed == score = passed

\* C1 (amended): the score equals the number of pipes of this round whose
\* centre has reached bird.x, except that the pipe whose centre reaches
\* bird.x in the very tick that detects the collision is not scored.
C1_ScoreEqualsPassedWhileRunning ==
    passed = score +
        (IF game_over /\ \E i \in 1..Len(pipes) : PipeScores(pipes[i], bird)
         THEN 1 ELSE 0)

\* C1 witness: the round is running and three pipes have been scored, the
\* third being a recycled pipe spawned at x = WIDTH.
C1_Witness ==
    /\ pc = "render"
    /\ ~game_over
    /\ score = 3
    /\ passed = 3

\* C2: whenever the horizontal extents of bird and pipe overlap and the bird
\* is not fully inside the gap, Bird.collision returns true.
C2_OverlapOutsideGapCollides ==
    (pc = "probed" /\ HorizontalOverlap(bird, pipes[1])
        /\ ~InsideGap(bird, pipes[1], PIPE_GAP)) => game_over

\* C3: whenever the bird is inside the vertical bounds and either has no
\* horizontal overlap with the pipe or is fully inside the gap,
\* Bird.collision returns false.
C3_NoFalsePositive ==
    (pc = "probed" /\ InsideBounds(bird)
        /\ (~HorizontalOverlap(bird, pipes[1])
            \/ InsideGap(bird, pipes[1], PIPE_GAP))) => ~game_over

\* C3 witness: the bird's right edge is inside the pipe's x range, its top is
\* exactly at gap_start, and the call returned false.
C3_Witness ==
    /\ pc = "probed"
    /\ pipes[1].x < bird.x + BIRD_WIDTH
    /\ bird.x + BIRD_WIDTH < pipes[1].x + PIPE_WIDTH
    /\ bird.y = pipes[1].gap_start * Unit
    /\ ~game_over


\* Every x a pipe can stand at, from the start layout's second pipe to the
\* position at which a pipe is removed.
PipeXs ==
    (-(PIPE_THICKNESS + PIPE_SPEED)) ..
        (WIDTH + WIDTH \div 2 + SECOND_PIPE_OFFSET)

\* The bird as it is collides with a pipe at any x with any gap_start.
CollidesWithAnyPipe ==
    \A x \in PipeXs : \A g \in GapStarts(DEFAULT_GAP) \cup GapStarts(PIPE_GAP) :
        collision(bird, floor, NewPipe(x, g), PIPE_GAP)

\* C4: Bird.collision is true whenever the bird is above the ceiling or
\* below the floor bound, for every pipe x and gap_start; and every update
\* of a started round calls it at least once and ends the round when the
\* bird is out of bounds.
C4_BoundsAlwaysChecked ==
    /\ []((bird.y < 0 \/ bird.y + BIRD_HEIGHT * Unit
                             > (HEIGHT - FLOOR_HEIGHT) * Unit)
             => CollidesWithAnyPipe)
    /\ [][(pc = "update" /\ bird.started)
             => /\ evals' >= 1
                /\ (bird.y < 0 \/ bird.y + BIRD_HEIGHT * Unit
                                     > (HEIGHT - FLOOR_HEIGHT) * Unit)
                       => game_over']_vars

\* C4 witness: the round has just been ended by the floor bound while the
\* nearest pipe was still right of the bird.
C4_Witness ==
    /\ pc = "endgame"
    /\ game_over
    /\ hit[1].y > (HEIGHT - FLOOR_HEIGHT - BIRD_HEIGHT) * Unit
    /\ \A i \in 1..Len(pipes) : pipes[i].x > bird.x + BIRD_WIDTH

\* C5: while game_over is true the kinematic state (bird y, velocity and
\* rotation, the pipes, floor.x) is what it was at the instant the flag was
\* set.
C5_FrozenOnceGameOver == game_over => hit = <<Kinematics>>

\* C6: there are exactly two live pipes in every reachable state.
C6_TwoPipes == Len(pipes) = 2

\* C6 witness: a pipe has just been recycled: the new pipe stands at
\* x = WIDTH behind the pipe that was second.
C6_Witness ==
    /\ pc = "render"
    /\ Len(pipes) = 2
    /\ pipes[2].x = WIDTH
    /\ pipes[1].x < WIDTH

\* The phase of the game.
Phase ==
    IF game_over THEN "GameOver"
    ELSE IF bird.started THEN "Playing" ELSE "Idle"

\* C7: the phase changes only Idle -> Playing (a flap command in
\* handle_input), Playing -> GameOver (a collision detected by update) and
\* GameOver -> Idle (the restore).
C7_PhaseTransitions ==
    [][Phase' # Phase =>
          \/ /\ Phase = "Idle" /\ Phase' = "Playing"
             /\ pc = "input" /\ bird' = FlapCommand(bird)
          \/ /\ Phase = "Playing" /\ Phase' = "GameOver"
             /\ pc = "update" /\ hit' # <<>>
          \/ /\ Phase = "GameOver" /\ Phase' = "Idle"
             /\ pc = "restore"]_vars

\* C7 witness: a whole round (Idle, Playing, GameOver) has been played and
\* the game is Idle again.
C7_Witness ==
    /\ pc = "main"
    /\ ends = 1
    /\ Phase = "Idle"

\* C8: the restore that follows game over puts the world back into the
\* start layout.
C8_RestoreGivesStartLayout ==
    pc = "main" =>
        /\ score = 0
        /\ game_over = FALSE
        /\ bird = [x |-> WIDTH \div 20, y |-> (HEIGHT \div 2) * Unit,
                   vely |-> 0, started |-> FALSE, degree |-> 0, rotation |-> 0]
        /\ Len(pipes) = 2
        /\ pipes[1].x = WIDTH + WIDTH \div 2
        /\ pipes[2].x = WIDTH + WIDTH \div 2 + 340
        /\ floor.x = 0

\* C8 witness: a restore has just run, after rounds in which points were
\* scored and pipes recycled.
C8_Witness ==
    /\ pc = "main"
    /\ ends = 1
    /\ highscore >= 2

\* C9: the high score never decreases; it changes only in endgame, to the
\* round's score, and only when that score is greater; after endgame it is
\* at least the round's score.
C9_HighScoreIsMax ==
    [][/\ highscore' >= highscore
       /\ highscore' # highscore =>
              (pc = "endgame" /\ score > highscore /\ highscore' = score)
       /\ pc' = "restore" => highscore' >= score']_vars

\* C9 witness: a round that scored, but less than the high score, has ended
\* and the high score was kept.
C9_Witness ==
    /\ pc = "restore"
    /\ 0 < score
    /\ score < highscore

\* C10: after the flap that starts the round, with no further input, the
\* bird crosses the floor bound and game_over is set; then endgame runs
\* once and the game is Idle again.
C10_QuietRoundEnds ==
    /\ (Phase = "Playing") ~>
           (pc = "endgame" /\ game_over
                /\ hit[1].y > (HEIGHT - FLOOR_HEIGHT - BIRD_HEIGHT) * Unit)
    /\ (pc = "endgame") ~> (pc = "main" /\ Phase = "Idle" /\ ends = 1)

\* C10 witness: a round started by one flap has ended on the floor and the
\* game is Idle again.
C10_Witness ==
    /\ pc = "main"
    /\ Phase = "Idle"
    /\ ends = 1
    /\ score = 0


\* C11: in every reachable state the bird's rotation is at least -90 degrees.
C11_RotationAtLeastMinus90 == bird.rotation >= -(MIN_ROTATION * AngleUnit)

\* The flap events of a batch that handle_input dispatches: those before
\* the first exit event.
RECURSIVE FlapsDispatched(_, _)
FlapsDispatched(evs, i) ==
    IF i > Len(evs) \/ evs[i] \in {"quit", "escape"} THEN 0
    ELSE (IF evs[i] = "flap" THEN 1 ELSE 0) + FlapsDispatched(evs, i + 1)

\* The bird b after a flap key: its position kept, all else reset.
AfterFlap(b) ==
    [x |-> b.x, y |-> b.y, vely |-> -FLAP_POWER, started |-> TRUE,
     degree |-> 0, rotation |-> FLAP_ROTATION * AngleUnit]

\* C12: a flap sets velocity to -FLAP_POWER, rotation to 20 and the fall-angle
\* accumulator to 0 whatever they were, leaves x and y alone, and two flaps
\* with no tick in between leave the same state as one.
C12_FlapResets ==
    [][(pc = "input" /\ FlapsDispatched(batch', 1) >= 1)
           => bird' = AfterFlap(bird)]_vars

\* A bird that was falling fast, nose down, has taken two flaps in one batch.
C12_Witness ==
    /\ batch = <<"flap", "flap">>
    /\ origin.vely > 0 /\ origin.rotation < 0 /\ origin.degree > 0
    /\ bird = AfterFlap(origin)

C14_IdleFramesChangeNothing ==
    [][(~bird.started /\ ~bird'.started)
           => /\ UNCHANGED <<score, game_over, bird, pipes, floor>>
              /\ pc = "update" => evals' = 0]_vars

\* An Idle frame of a later round has gone through its update step.
C14_Witness ==
    /\ pc = "render"
    /\ ~bird.started
    /\ highscore >= 1
    /\ evals = 0

\* C15: 'hard' or 'h' gives the gap 150, 'med' or 'm' gives 200, anything
\* else or no argument gives 250 (so hard < med < default); once the Game
\* is constructed this gap is in effect in every state of every round.
C15_DifficultySelectsGap ==
    instance = 1 =>
        /\ argv \in {"hard", "h"} => PIPE_GAP = 150
        /\ argv \in {"med", "m"} => PIPE_GAP = 200
        /\ argv \notin {"hard", "h", "med", "m"} => PIPE_GAP = 250

\* A later round is being played with the gap of 'h': one of its pipes has
\* a gap_start that only the range of the hard gap contains.
C15_Witness ==
    /\ argv = "h"
    /\ PIPE_GAP = 150
    /\ bird.started
    /\ \E i \in 1..Len(pipes) :
           pipes[i].gap_start = HEIGHT - 150 - FLOOR_Y_OFFSET - GAP_MARGIN

\* C16: for every live pipe in every reachable state and every difficulty
\* the gap fits between the 50-pixel margins above the floor:
\* 50 <= gap_start and gap_start + PIPE_GAP <= HEIGHT - 224 - 50, the initial
\* pipes (made before the difficulty is applied) and the pipes made by
\* recycling and by restore included.
C16_GapFitsOnScreen ==
    \A i \in 1..Len(pipes) :
        /\ 50 <= pipes[i].gap_start
        /\ pipes[i].gap_start + PIPE_GAP <= HEIGHT - 224 - 50

\* On 'hard', an initial pipe whose gap_start was drawn at the top of the
\* default range is live beside a recycled pipe drawn at the top of the
\* hard range.
C16_Witness ==
    /\ PIPE_GAP = 150
    /\ ~game_over
    /\ \E i, j \in 1..Len(pipes) :
           /\ pipes[i].gap_start = HEIGHT - 250 - 224 - 50
           /\ pipes[j].gap_start = HEIGHT - 150 - 224 - 50

\* The live pipes that are the next pipe ahead of the bird not yet scored:
\* those whose centre is right of bird.x, none of the others being nearer.
NextUnscored ==
    LET Ahead(i) == pipes[i].x + PIPE_THICKNESS \div 2 > bird.x
    IN  {i \in 1..Len(pipes) :
             /\ Ahead(i)
             /\ \A j \in 1..Len(pipes) : Ahead(j) => pipes[i].x <= pipes[j].x}

\* C17 as stated: the score goes up in the tick in which a pipe's trailing
\* edge, pipe.x + PIPE_THICKNESS, crosses the bird's x, and at most one live
\* pipe is the next unscored pipe ahead of the bird.
C17_ScoresAtTrailingEdge ==
    /\ [][(pc = "update" /\ score' # score)
              => /\ score' = score + 1
                 /\ \E i \in 1..Len(pipes) :
                        /\ pipes[i].x + PIPE_THICKNESS > bird.x
                        /\ PipeMotion(pipes[i]).x + PIPE_THICKNESS <= bird.x]_vars
    /\ [](Cardinality(NextUnscored) <= 1)

\* C17 amended: the score goes up by one in the tick in which a pipe's
\* centre, pipe.x + PIPE_THICKNESS // 2, reaches the bird's x, the trailing
\* edge being still right of it, and at most one live pipe is the next
\* unscored pipe ahead of the bird.
C17_ScoresAtCentre ==
    /\ [][(pc = "update" /\ score' # score)
              => /\ score' = score + 1
                 /\ \E i \in 1..Len(pipes) :
                        /\ pipes[i].x + PIPE_THICKNESS \div 2 > bird.x
                        /\ PipeMotion(pipes[i]).x + PIPE_THICKNESS \div 2 = bird.x
                        /\ PipeMotion(pipes[i]).x + PIPE_THICKNESS > bird.x]_vars
    /\ [](Cardinality(NextUnscored) <= 1)

\* A pipe has just been scored: its centre is at the bird's x, its trailing
\* edge still ahead, and the other pipe is the one next to come.
C17_Witness ==
    /\ pc = "render"
    /\ score >= 1
    /\ \E i \in 1..Len(pipes) :
           /\ pipes[i].x + PIPE_THICKNESS \div 2 = bird.x
           /\ pipes[i].x + PIPE_THICKNESS > bird.x
    /\ Cardinality(NextUnscored) = 1

\* C18: when handle_input dispatches a Quit (Escape key-down or window
\* close) the process ends in that step: no later event of the batch is
\* dispatched and no update, render, endgame or restore step (nor any other)
\* runs afterwards, in Idle and in Playing.
C18_QuitEndsProcess ==
    pc # "input" =>
        LET quits == \E i \in 1..Len(batch) : batch[i] \in {"quit", "escape"}
        IN  /\ quits <=> pc = "exited"
            /\ quits =>
                   /\ bird = IF FlapsDispatched(batch, 1) >= 1
                             THEN AfterFlap(origin) ELSE origin
                   /\ ~ENABLED (Main \/ Render \/ HandleInput \/ InputBatch
                                   \/ Update \/ EndGame \/ Restore)

\* In mid-fall the Escape key arrived with a flap key behind it: the process
\* has ended and the bird is as it was.
C18_Witness ==
    /\ pc = "exited"
    /\ batch = <<"escape", "flap">>
    /\ origin.started /\ origin.vely > 0
    /\ bird = origin

\* C19: at most one Game instance exists: get_instance() constructs it on
\* its first call only and returns it on every later call, in every round,
\* and a Game() attempted while the instance exists ends in an error that
\* leaves the instance and its state as they were.
C19_SingleInstance ==
    /\ [](made <= 1 /\ instance = made /\ raised # "get_instance")
    /\ [][made' # made => (made = 0 /\ pc = "main")]_vars
    /\ [][raised' # raised
              => /\ instance = 1
                 /\ UNCHANGED <<score, game_over, bird, pipes, floor,
                                highscore, PIPE_GAP, start_state, instance,
                                made>>]_vars

\* In a later round (its pipes were made by restore with the hard gap) a
\* second Game() has been attempted and has raised; the one instance stands.
C19_Witness ==
    /\ pc = "raised"
    /\ raised = "Game()"
    /\ instance = 1 /\ made = 1
    /\ bird.started
    /\ pipes[1].gap_start = HEIGHT - 150 - FLOOR_Y_OFFSET - GAP_MARGIN

\* C20: while the round is not over no live pipe has its right edge left of
\* the screen (pipe.x + PIPE_THICKNESS < 0); in a tick that does not end the
\* round the pipes that come to satisfy this are removed, each replaced in
\* the same tick by a pipe at x = WIDTH with a gap_start of the range, and
\* every other pipe stays, moved by PIPE_SPEED.
C20_OffscreenPipesRecycled ==
    /\ [](~game_over =>
              \A i \in 1..Len(pipes) : ~(pipes[i].x + PIPE_THICKNESS < 0))
    /\ [][(pc = "update" /\ bird.started /\ ~game_over')
              => LET OnScreen(p) == ~(p.x + PIPE_THICKNESS < 0)
                     moved == [i \in 1..Len(pipes) |->
                                  [pipes[i] EXCEPT !.x = @ - PIPE_SPEED]]
                     kept == SelectSeq(moved, OnScreen)
                 IN  /\ Len(pipes') = Len(pipes)
                     /\ SubSeq(pipes', 1, Len(kept)) = kept
                     /\ \A j \in (Len(kept) + 1)..Len(pipes') :
                            /\ pipes'[j].x = WIDTH
                            /\ pipes'[j].gap_start \in
                                   50..(HEIGHT - PIPE_GAP - 224 - 50)]_vars

\* The first pipe has been scored and recycled in a tick that left the round
\* running: its replacement stands at x = WIDTH and no pipe is off-screen.
C20_Witness ==
    /\ pc = "render"
    /\ ~game_over
    /\ score >= 1
    /\ pipes[2].x = WIDTH
    /\ pipes[1].x + PIPE_THICKNESS >= 0

\* C21: floor.x is set back to 0 at the start of the first tick in which
\* floor.x < -WIDTH holds and decreases by FLOOR_SPEED in every tick, so it
\* stays within [-(WIDTH + FLOOR_SPEED), 0] in every reachable state.
C21_FloorWraps ==
    /\ [](-(WIDTH + FLOOR_SPEED) <= floor.x /\ floor.x <= 0)
    /\ [][(pc = "update" /\ bird.started)
              => floor'.x = (IF floor.x < -WIDTH THEN 0 ELSE floor.x)
                                - FLOOR_SPEED]_vars

\* The floor has gone its whole way to -(WIDTH + FLOOR_SPEED), has been set
\* back, and has moved on in the same tick; the round is still running.
C21_Witness ==
    /\ pc = "render"
    /\ ~game_over
    /\ floor.x = -FLOOR_SPEED
    /\ pipes[1].x < WIDTH - PIPE_SPEED

SpawnMemento ==
    [score |-> 0, game_over |-> FALSE,
     bird_state |-> <<WIDTH \div 20, (HEIGHT \div 2) * Unit>>,
     pipe_states |-> <<WIDTH + WIDTH \div 2,
                       WIDTH + WIDTH \div 2 + SECOND_PIPE_OFFSET>>,
     floor_state |-> 0]

OutOfBounds(b) ==
    \/ b.y < 0
    \/ b.y > (HEIGHT - FLOOR_HEIGHT - BIRD_HEIGHT) * Unit

\* C24: when a tick has left the bird outside the vertical bounds with
\* game_over still false, the next update sets game_over, whatever flaps are
\* dispatched in between.
C24_DetectedNextTick ==
    [][/\ (pc = "update" /\ bird.started /\ ~game_over /\ OutOfBounds(bird))
              => game_over'
       /\ (pc = "input" /\ OutOfBounds(bird)) => OutOfBounds(bird')]_vars

\* A flap was dispatched while the bird was below the floor bound, and the
\* update after it has set game_over.
C24_Witness ==
    /\ pc = "endgame"
    /\ game_over
    /\ hit[1].vely = -FLAP_POWER
    /\ hit[1].y > (HEIGHT - FLOOR_HEIGHT - BIRD_HEIGHT) * Unit

InCollisionRange ==
    {i \in 1..Len(pipes) :
         /\ pipes[i].x < bird.x + BIRD_WIDTH
         /\ bird.x + BIRD_WIDTH < pipes[i].x + PIPE_WIDTH}

\* What the spacing of the pipes entails for one tick: at most one pipe is
\* recycled, the score goes up by at most one, and at most one pipe is in
\* the bird's horizontal collision range.
OnePipePerTick ==
    /\ [](Cardinality(InCollisionRange) <= 1)
    /\ [][pc = "update" =>
              /\ score' \in {score, score + 1}
              /\ Cardinality({j \in 1..Len(pipes') : pipes'[j].x = WIDTH})
                     <= 1]_vars

\* C26 as stated: at the end of every tick the two pipes are stored left to
\* right and their x differ by 340 or 344, over any number of recycles;
\* hence at most one pipe per tick is recycled, scores, or is in the bird's
\* horizontal collision range.
C26_PipeSpacing ==
    /\ [](/\ pipes[1].x < pipes[2].x
          /\ pipes[2].x - pipes[1].x \in {340, 344})
    /\ OnePipePerTick

\* C26 amended: the same while the round is running; the tick that detects
\* the collision moves the first pipe and leaves the loop before the second
\* is moved, so once game_over is set the difference is 344 or 348.
C26_PipeSpacingWhileRunning ==
    /\ [](/\ pipes[1].x < pipes[2].x
          /\ ~game_over => pipes[2].x - pipes[1].x \in {340, 344}
          /\ game_over => pipes[2].x - pipes[1].x \in {344, 348})
    /\ OnePipePerTick

\* After the second recycle the round is running with the new pipe 340
\* behind the other.
C26_Witness ==
    /\ pc = "render"
    /\ ~game_over
    /\ score = 2
    /\ pipes[2].x = WIDTH
    /\ pipes[2].x - pipes[1].x = 340

\* C27: main() never returns and every round end starts the next round by
\* a call of main() from inside the current activation: the number of
\* nested activations never goes down, every entry of main() adds one, the
\* step after the restore is that entry, and while a round is being played
\* the number of activations is the number of completed rounds plus one.
C27_MainNests ==
    /\ []((pc \in {"render", "input", "update", "endgame"}) =>
              depth = rounds + 1)
    /\ []((pc = "restore" \/ (pc = "main" /\ depth > 0)) => depth = rounds)
    /\ [][/\ depth' >= depth
          /\ pc = "main" => depth' = depth + 1
          /\ pc = "restore" => pc' = "main"
          /\ rounds' # rounds => (pc = "endgame" /\ rounds' = rounds + 1)]_vars

\* Two rounds have ended and the third is being played in the third nested
\* activation of main().
C27_Witness ==
    /\ rounds = 2
    /\ depth = 3
    /\ pc = "update"
    /\ bird.started
    /\ ~game_over

=============================================================================
